---- MODULE Spec2Model ----
(***************************************************************************)
(* Study assistant of Our_World: the chat (RAG) handler, the usage meter    *)
(* and the ingest handler of server/routes/study.ts, with the two SQL       *)
(* retrieval functions they call (match_documents_hybrid, match_documents). *)
(*                                                                         *)
(* Scores (cosine similarity, lexical rank, combined score) are integers   *)
(* in units of 1/10000, so 0.3 is 3000 and 0.7*s + 0.3*f is (7*s + 3*f)/10. *)
(* Money is in units of 1e-8 USD, so 0.15 USD per million tokens is 15 per  *)
(* token.  Time is in whole hours since the UTC epoch of the model.         *)
(***************************************************************************)
EXTENDS Integers, Sequences, FiniteSets, TLC

\* ------------------------------------------------------------------------
\* Program constants (study.ts, second revision, lines 560-574)

SIMILARITY_THRESHOLD == 3000

MAX_CHUNKS_TO_LLM == 5

CHAT_HISTORY_TURNS == 5

DAILY_QUERY_LIMIT == 50

INPUT_COST_PER_M == 15

OUTPUT_COST_PER_M == 60

MAX_QUESTION_LENGTH == 2000

\* match_count passed to match_documents_hybrid: MAX_CHUNKS_TO_LLM + 3
HYBRID_OVERFETCH == 3

\* batchSize of the embedding loop of ingest
BATCH_SIZE == 20

\* ------------------------------------------------------------------------
\* Bounds of the model

\* chat requests that may be in flight together
MaxRequests == 2

\* chat requests received in one run
MaxChats == 3

\* ------------------------------------------------------------------------
\* Generic helpers

NULL == "null"

\* an undefined (or SQL NULL) number: no score, count or length has this value
Undefined == 0 - 1000000

\* the result of a single-row read that found no row
NoRow == <<>>

Min(a, b) == IF a <= b THEN a ELSE b

Range(s) == {s[i] : i \in DOMAIN s}

\* Array.prototype.slice(0, n)
Take(s, n) == SubSeq(s, 1, Min(n, Len(s)))

\* ORDER BY <expression> DESC over rows that carry the expression's value in
\* field ord (ties are broken by row id)
RECURSIVE OrderByDesc(_)
OrderByDesc(S) ==
    IF S = {} THEN <<>>
    ELSE LET top == CHOOSE x \in S : \A y \in S :
                        \/ x.ord > y.ord
                        \/ x.ord = y.ord /\ x.id <= y.id
         IN  <<top>> \o OrderByDesc(S \ {top})

\* Math.round(x * 100) / 100 on a score: floor(x + 0.005) to two decimals
Round2(x) == ((x + 50) \div 100) * 100

\* ------------------------------------------------------------------------
\* The world the handlers run in: users, the clock, the stored corpus

Users == {"A", "B"}

\* Instants the clock can show (hours): day 0 20:00 UTC and day 1 10:00 UTC,
\* which are 04:00 and 18:00 of one day at UTC+8
ClockTimes == {20, 34}

\* new Date().toISOString().slice(0, 10): the UTC calendar date
UtcDate(t) == t \div 24

Dates == {UtcDate(t) : t \in ClockTimes}

FirstInstant == CHOOSE t \in ClockTimes : \A x \in ClockTimes : t <= x

\* documents rows present when the server starts
InitialDocuments ==
    { [id |-> "d1", uploaded_by |-> "A", module_name |-> "Bio",  filename |-> "bio.pdf",  status |-> "ready", chunk_count |-> 6],
      [id |-> "d2", uploaded_by |-> "A", module_name |-> "Chem", filename |-> "chem.txt", status |-> "ready", chunk_count |-> 2],
      [id |-> "d3", uploaded_by |-> "B", module_name |-> "Bio",  filename |-> "bio-b.pdf", status |-> "ready", chunk_count |-> 2] }

\* document_chunks rows present when the server starts.  aff stands for the
\* stored embedding (its cosine similarity to the topic of the corpus) and
\* lex for the stored content (its raw ts_rank_cd against that topic).
ChunkRow(i, d, k, m, f, a, l) ==
    [id |-> i, document_id |-> d, chunk_index |-> k, module_name |-> m,
     document_filename |-> f, content |-> i, aff |-> a, lex |-> l]

InitialChunks ==
    { ChunkRow(1, "d1", 0, "Bio", "bio.pdf", 9000, 2000),
      ChunkRow(2, "d1", 1, "Bio", "bio.pdf", 6000, 0),
      ChunkRow(3, "d1", 2, "Bio", "bio.pdf", 4500, 500),
      ChunkRow(4, "d1", 3, "Bio", "bio.pdf", 3500, 0),
      ChunkRow(5, "d1", 4, "Bio", "bio.pdf", 3000, 0),
      ChunkRow(6, "d1", 5, "Bio", "bio.pdf", 2900, 1000),
      ChunkRow(7, "d2", 0, "Chem", "chem.txt", 7000, 0),
      ChunkRow(8, "d2", 1, "Chem", "chem.txt", 1000, 0),
      ChunkRow(9, "d3", 0, "Bio", "bio-b.pdf", 9500, 1000),
      ChunkRow(10, "d3", 1, "Bio", "bio-b.pdf", 4000, 0) }

\* Search strings a request can carry: three questions and the text a rewrite
\* can return.  Gain is how close (percent) the string's embedding is to the
\* topic of the corpus; LexHit says whether plainto_tsquery of it matches.
Questions == {"hit", "weak", "miss"}

Gain(q) == CASE q = "hit" -> 100 [] q = "rw" -> 80 [] q = "weak" -> 20 [] OTHER -> 0

LexHit(q) == q \in {"hit", "rw"}

\* 1 - (dc.embedding <=> query_embedding)
Cosine(c, q) == (c.aff * Gain(q)) \div 100

\* ts_rank_cd(to_tsvector('english', dc.content), ts_query), 0 when no match
TsRank(c, q) == IF LexHit(q) THEN c.lex ELSE 0

\* ------------------------------------------------------------------------
\* State

VARIABLES
    now,              \* the server clock (hours)
    api_usage,        \* table api_usage: (user_id, window_date) -> row or NULL
    documents,        \* table documents: set of rows
    document_chunks,  \* table document_chunks: set of rows
    req,              \* chat requests: their handler's position and locals
    meter,            \* history: updateUsage calls completed per (user, date)
    usage0,           \* history: table api_usage as it was when the server started
    served,           \* history: number of chat requests received
    ing,              \* the ingest request: its handler's position and locals
    chunker,          \* a call of splitIntoChunks: its text and what it returned
    del,              \* the delete request: its handler's position and locals
    storage,          \* bucket lecture-materials: set of object paths
    hook,             \* the client's useChat hook: its props, state and requests in flight
    study_conversations  \* table study_conversations of the hook's user: module -> messages

vars == <<now, api_usage, documents, document_chunks, req, meter, usage0, served, ing, chunker,
          del, storage, hook, study_conversations>>

Requests == 1..MaxRequests

\* ------------------------------------------------------------------------
\* SQL: match_documents_hybrid (hybrid search migration)

\* has_fts_query := query_text IS NOT NULL AND length(trim(query_text)) > 0
HasFtsQuery(query_text) == query_text # NULL /\ query_text # ""

\* LEAST(ts_rank_cd(...) * 10, 1.0) when the chunk matches the text query
FtsNorm(c, query_text) ==
    IF HasFtsQuery(query_text) /\ TsRank(c, query_text) > 0
    THEN Min(TsRank(c, query_text) * 10, 10000)
    ELSE 0

\* 0.7 * similarity + 0.3 * normalised lexical rank
CombinedScore(c, query_embedding, query_text) ==
    (7 * Cosine(c, query_embedding) + 3 * FtsNorm(c, query_text)) \div 10

\* the hybrid search without the filter on the uploader
HybridWhereAnyUser(c, d, query_embedding, similarity_threshold, filter_document_id, filter_user_id, filter_module) ==
    /\ filter_document_id = NULL \/ c.document_id = filter_document_id
    /\ filter_module = NULL \/ c.module_name = filter_module
    /\ Cosine(c, query_embedding) >= similarity_threshold

\* The WHERE clause of match_documents_hybrid, d being the joined documents row
HybridWhere(c, d, query_embedding, similarity_threshold, filter_document_id, filter_user_id, filter_module) ==
    /\ filter_document_id = NULL \/ c.document_id = filter_document_id
    /\ filter_user_id = NULL \/ d.uploaded_by = filter_user_id
    /\ filter_module = NULL \/ c.module_name = filter_module
    /\ Cosine(c, query_embedding) >= similarity_threshold

HybridRow(c, query_embedding, query_text) ==
    [id |-> c.id, document_id |-> c.document_id, content |-> c.content,
     chunk_index |-> c.chunk_index,
     similarity |-> Cosine(c, query_embedding),
     fts_rank |-> IF HasFtsQuery(query_text) THEN TsRank(c, query_text) ELSE 0,
     combined_score |-> CombinedScore(c, query_embedding, query_text),
     module_name |-> c.module_name, document_filename |-> c.document_filename,
     ord |-> CombinedScore(c, query_embedding, query_text)]

match_documents_hybrid(query_embedding, query_text, match_count, similarity_threshold, filter_document_id, filter_user_id, filter_module) ==
    LET hits == { HybridRow(c, query_embedding, query_text) :
                    c \in { x \in document_chunks :
                              \E d \in documents :
                                /\ d.id = x.document_id
                                /\ HybridWhere(x, d, query_embedding, similarity_threshold,
                                               filter_document_id, filter_user_id, filter_module) } }
    IN  Take(OrderByDesc(hits), match_count)

\* ------------------------------------------------------------------------
\* SQL: match_documents (security hardening migration), the fallback

FallbackWhere(c, d, filter_document_id, filter_user_id) ==
    /\ filter_document_id = NULL \/ c.document_id = filter_document_id
    /\ filter_user_id = NULL \/ d.uploaded_by = filter_user_id

\* The function returns id, document_id, content, chunk_index and similarity
\* only: the other fields are undefined in its rows.
FallbackRow(c, query_embedding) ==
    [id |-> c.id, document_id |-> c.document_id, content |-> c.content,
     chunk_index |-> c.chunk_index,
     similarity |-> Cosine(c, query_embedding),
     fts_rank |-> Undefined, combined_score |-> Undefined,
     module_name |-> NULL, document_filename |-> NULL,
     ord |-> Cosine(c, query_embedding)]

match_documents(query_embedding, match_count, filter_document_id, filter_user_id) ==
    LET hits == { FallbackRow(c, query_embedding) :
                    c \in { x \in document_chunks :
                              \E d \in documents :
                                /\ d.id = x.document_id
                                /\ FallbackWhere(x, d, filter_document_id, filter_user_id) } }
    IN  Take(OrderByDesc(hits), match_count)

\* ------------------------------------------------------------------------
\* Usage meter

\* resetTomorrow: the UTC date after today's, at 16:00 UTC (the conditional
\* second setUTCDate sets the date to itself)
ResetTime(t) == (UtcDate(t) + 1) * 24 + 16

\* allowed = queryCount < DAILY_QUERY_LIMIT
Allowed(queryCount) == queryCount < DAILY_QUERY_LIMIT

\* checkRateLimit(userId) at the current instant
checkRateLimit(userId) ==
    LET data == api_usage[userId][UtcDate(now)]
        queryCount == IF data = NoRow THEN 0 ELSE data[1].query_count
    IN  [allowed |-> Allowed(queryCount), queryCount |-> queryCount,
         resetTime |-> ResetTime(now)]

\* cost of one generation call, (in * 0.15 + out * 0.6) / 1e6 USD
Cost(inputTokens, outputTokens) ==
    inputTokens * INPUT_COST_PER_M + outputTokens * OUTPUT_COST_PER_M

\* column cost_usd is numeric(10,6): a stored value is rounded to 1e-6 USD
Numeric6(x) == ((x + 50) \div 100) * 100

\* the row updateUsage writes over an existing one
UpdatedRow(existing, inputTokens, outputTokens) ==
    [query_count |-> existing.query_count + 1,
     tokens_used |-> existing.tokens_used + inputTokens + outputTokens,
     cost_usd |-> Numeric6(existing.cost_usd + Cost(inputTokens, outputTokens))]

\* the row updateUsage inserts when it found none
InsertedRow(inputTokens, outputTokens) ==
    [query_count |-> 1,
     tokens_used |-> inputTokens + outputTokens,
     cost_usd |-> Numeric6(Cost(inputTokens, outputTokens))]

\* ------------------------------------------------------------------------
\* Chat requests: what a client can send

\* a completion that reports no usage
NoUsage == [prompt_tokens |-> Undefined, completion_tokens |-> Undefined]

\* what a completion that returned can report as its usage
TokenUsages == { [prompt_tokens |-> 1203, completion_tokens |-> 300], NoUsage }

\* body and credential of a POST /chat.  user is the user the bearer token
\* resolves to (NULL: none); qlen is question.length (0: question missing);
\* histLen is chat_history.length (0: absent or not an array); cue says
\* whether the question contains one of the follow-up words.
ChatInput(u, n, q, h, c, d, m) ==
    [user |-> u, qlen |-> n, question |-> q, histLen |-> h, cue |-> c,
     document_id |-> d, module_name |-> m]

\* every request shape of the single-request specification
AllChatInputs ==
    { ChatInput(u, n, q, h, c, d, m) :
        u \in Users \cup {NULL}, n \in {0, 12, MAX_QUESTION_LENGTH, MAX_QUESTION_LENGTH + 1},
        q \in Questions, h \in {0, 12}, c \in BOOLEAN,
        d \in {NULL, "d1", "d3"}, m \in {NULL, "Bio", "Chem", "Empty"} }

\* the request shapes of the concurrent specification
ConcurrentChatInputs ==
    { ChatInput("A", 12, "hit", 0, FALSE, NULL, NULL),
      ChatInput("A", 12, "hit", 3, TRUE, NULL, "Bio") }

IdleRequest ==
    [pc |-> "idle", in |-> NULL, user |-> NULL, searchQuery |-> NULL,
     rateLimit |-> NULL, qualityMatches |-> <<>>, tokens |-> NULL,
     today |-> Undefined, existing |-> NoRow, calls |-> <<>>, seen |-> Undefined,
     retrieved |-> FALSE, matches |-> <<>>,
     rewriteRes |-> "none", hybridResult |-> "none", fallback |-> "none", res |-> NULL]

\* res.status(code).json(body) / res.json(body)
Response(status, error, low, answer, sources, usage) ==
    [status |-> status, error |-> error, low_confidence |-> low,
     answer |-> answer, sources |-> sources, usage |-> usage]

ErrorResponse(status, error) == Response(status, error, NULL, NULL, NULL, NULL)

\* Fields calls, seen, retrieved and matches of a request are history: the
\* calls the handler made so far, the number of recorded generation calls of
\* the user when the handler checked the rate limit, and the rows its search
\* returned.  So are rewriteRes, hybridResult and fallback: what the rewrite
\* call did ("none": not called) and whether each search returned "data" or
\* an "error".  A request whose handler has returned keeps them with the
\* response; the handler's locals are dropped.
Ended(q, calls, res) ==
    [IdleRequest EXCEPT !.pc = "done", !.in = q.in, !.user = q.user, !.seen = q.seen,
                        !.retrieved = q.retrieved, !.matches = q.matches,
                        !.rewriteRes = q.rewriteRes, !.hybridResult = q.hybridResult,
                        !.fallback = q.fallback,
                        !.calls = calls, !.res = res]

Finish(r, calls, res) == req' = [req EXCEPT ![r] = Ended(req[r], calls, res)]

\* ------------------------------------------------------------------------
\* POST /api/study/chat

\* the length test with >=
QuestionTooLongFrom(qlen) == qlen >= MAX_QUESTION_LENGTH

\* question.length > MAX_QUESTION_LENGTH
QuestionTooLong(qlen) == qlen > MAX_QUESTION_LENGTH

\* history = Array.isArray(chat_history) ? chat_history.slice(-CHAT_HISTORY_TURNS * 2) : []
HistoryLength(histLen) == Min(histLen, CHAT_HISTORY_TURNS * 2)

\* history.length > 0 and the question matches the follow-up pattern
NeedsRewrite(in) == HistoryLength(in.histLen) > 0 /\ in.cue

\* authentication and validation of the body
ChatAccept(r, in) ==
    /\ req[r].pc \in {"idle", "done"}
    /\ served' = served + 1
    /\ IF in.user = NULL
       THEN req' = [req EXCEPT ![r] = Ended([IdleRequest EXCEPT !.in = in], <<>>, ErrorResponse(401, "Unauthorized"))]
       ELSE IF in.qlen = 0
       THEN req' = [req EXCEPT ![r] = Ended([IdleRequest EXCEPT !.in = in, !.user = in.user], <<>>, ErrorResponse(400, "Missing question"))]
       ELSE IF QuestionTooLong(in.qlen)
       THEN req' = [req EXCEPT ![r] = Ended([IdleRequest EXCEPT !.in = in, !.user = in.user], <<>>, ErrorResponse(400, "Question too long"))]
       ELSE req' = [req EXCEPT ![r] = [IdleRequest EXCEPT !.pc = "rate", !.in = in, !.user = in.user]]
    /\ UNCHANGED <<now, api_usage, documents, document_chunks, meter, usage0, ing, chunker, del, storage, hook, study_conversations>>

\* a request arrives, one of the MaxChats the server is sent
ChatReceive(r, in) == served < MaxChats /\ ChatAccept(r, in)

\* rate limit check; then the choice between rewriting and embedding at once
ChatRateLimit(r) ==
    /\ req[r].pc = "rate"
    /\ LET rateLimit == checkRateLimit(req[r].user)
           calls == Append(req[r].calls, "rate_limit")
           seen == meter[req[r].user][UtcDate(now)].calls
       IN  IF ~rateLimit.allowed
           THEN req' = [req EXCEPT ![r] = Ended([req[r] EXCEPT !.seen = seen], calls,
                                                 Response(429, "Daily limit reached", NULL, NULL, NULL, rateLimit))]
           ELSE req' = [req EXCEPT ![r].rateLimit = rateLimit,
                                   ![r].calls = calls,
                                   ![r].seen = seen,
                                   ![r].searchQuery = req[r].in.question,
                                   ![r].pc = IF NeedsRewrite(req[r].in) THEN "rewrite" ELSE "embed"]
    /\ UNCHANGED <<now, api_usage, documents, document_chunks, meter, usage0, served, ing, chunker, del, storage, hook, study_conversations>>

\* what a rewrite call can do: throw, return nothing usable, return a query
RewriteOutcomes == {"throw", "", "rw"}

\* the rewrite with a catch that leaves the search query empty
RewrittenOrEmpty(question, outcome) ==
    IF outcome = "throw" THEN "" ELSE IF outcome = "" THEN question ELSE outcome

\* searchQuery = rewriteRes.choices[0]?.message?.content?.trim() || question,
\* and the question again when the call throws
Rewritten(question, outcome) ==
    IF outcome \in {"throw", ""} THEN question ELSE outcome

\* the rewrite call to the chat model
ChatRewrite(r) ==
    /\ req[r].pc = "rewrite"
    /\ \E outcome \in RewriteOutcomes :
         req' = [req EXCEPT ![r].searchQuery = Rewritten(req[r].in.question, outcome),
                            ![r].rewriteRes = outcome,
                            ![r].calls = Append(req[r].calls, "rewrite"),
                            ![r].pc = "embed"]
    /\ UNCHANGED <<now, api_usage, documents, document_chunks, meter, usage0, served, ing, chunker, del, storage, hook, study_conversations>>

\* the embedding call of the search query; a throw reaches the outer catch
ChatEmbed(r) ==
    /\ req[r].pc = "embed"
    /\ \E ok \in BOOLEAN :
         IF ok
         THEN req' = [req EXCEPT ![r].calls = Append(req[r].calls, "embed"), ![r].pc = "hybrid"]
         ELSE Finish(r, Append(req[r].calls, "embed"), ErrorResponse(500, "Internal server error"))
    /\ UNCHANGED <<now, api_usage, documents, document_chunks, meter, usage0, served, ing, chunker, del, storage, hook, study_conversations>>

\* JavaScript truthiness of a number that may be undefined
Truthy(x) == x # Undefined /\ x # 0

\* m.similarity || m.combined_score || 0
ThresholdScore(m) ==
    IF Truthy(m.similarity) THEN m.similarity
    ELSE IF Truthy(m.combined_score) THEN m.combined_score
    ELSE 0

PassesThreshold(m) == ThresholdScore(m) >= SIMILARITY_THRESHOLD

\* the threshold without the cap
QualityMatchesNoCap(matches) == SelectSeq(matches, PassesThreshold)

\* the cap without the threshold
QualityMatchesNoThreshold(matches) == Take(matches, MAX_CHUNKS_TO_LLM)

\* matches.filter(threshold).slice(0, MAX_CHUNKS_TO_LLM)
QualityMatches(matches) == Take(SelectSeq(matches, PassesThreshold), MAX_CHUNKS_TO_LLM)

\* matches.reduce((sum, m) => sum + (m.similarity || 0), 0)
RECURSIVE SumSimilarity(_)
SumSimilarity(matches) ==
    IF matches = <<>> THEN 0
    ELSE (IF Truthy(Head(matches).similarity) THEN Head(matches).similarity ELSE 0)
         + SumSimilarity(Tail(matches))

\* the answer of the low-confidence response: avgSimilarity > 0 picks the
\* "loosely related" text, anything else the "couldn't find" text
LowConfidenceAnswer(matches) ==
    IF Len(matches) > 0 /\ SumSimilarity(matches) > 0 THEN "loosely_related" ELSE "nothing_found"

\* one entry of sources
Source(m) ==
    [chunkIndex |-> m.chunk_index,
     content |-> m.content,
     documentName |-> IF m.document_filename = NULL THEN "Unknown" ELSE m.document_filename,
     similarity |-> Round2(IF Truthy(m.similarity) THEN m.similarity ELSE 0),
     combinedScore |-> Round2(IF Truthy(m.combined_score) THEN m.combined_score
                              ELSE IF Truthy(m.similarity) THEN m.similarity ELSE 0)]

Sources(qualityMatches) == [i \in DOMAIN qualityMatches |-> Source(qualityMatches[i])]

\* the low-confidence test on the rows returned instead of the rows kept
IsLowConfidenceOfMatches(matches, qualityMatches) == Len(matches) = 0

\* qualityMatches.length === 0
IsLowConfidence(matches, qualityMatches) == Len(qualityMatches) = 0

\* steps 4 and 5: threshold, cap, and the low-confidence response
AfterRetrieval(r, calls, matches) ==
    LET qualityMatches == QualityMatches(matches)
        search == calls[Len(calls)]
        q == [req[r] EXCEPT !.retrieved = TRUE, !.matches = matches,
                            !.hybridResult = IF search = "hybrid" THEN "data" ELSE @,
                            !.fallback = IF search = "fallback" THEN "data" ELSE @]
    IN  IF IsLowConfidence(matches, qualityMatches)
        THEN req' = [req EXCEPT ![r] = Ended(q, calls,
                        Response(200, NULL, TRUE, LowConfidenceAnswer(matches), <<>>, req[r].rateLimit))]
        ELSE req' = [req EXCEPT ![r] = [q EXCEPT !.calls = calls,
                                                  !.qualityMatches = qualityMatches,
                                                  !.pc = "generate"]]

\* document_id || null, module_name || null
OrNull(x) == IF x = "" THEN NULL ELSE x

\* the hybrid search; an error of the rpc sends the handler to the fallback
ChatHybrid(r) ==
    /\ req[r].pc = "hybrid"
    /\ \E error \in BOOLEAN :
         IF error
         THEN req' = [req EXCEPT ![r].calls = Append(req[r].calls, "hybrid"),
                                 ![r].hybridResult = "error",
                                 ![r].pc = "fallback"]
         ELSE AfterRetrieval(r, Append(req[r].calls, "hybrid"),
                             match_documents_hybrid(req[r].searchQuery, req[r].searchQuery,
                                                    MAX_CHUNKS_TO_LLM + HYBRID_OVERFETCH,
                                                    SIMILARITY_THRESHOLD,
                                                    OrNull(req[r].in.document_id), req[r].user,
                                                    OrNull(req[r].in.module_name)))
    /\ UNCHANGED <<now, api_usage, documents, document_chunks, meter, usage0, served, ing, chunker, del, storage, hook, study_conversations>>

\* matchErr as if the hybrid error alone set it
matchErrOfHybrid(hybridError, fallbackError) == hybridError

\* matchErr: null unless the hybrid search reported an error, and then the
\* error of the fallback search
matchErr(hybridError, fallbackError) == hybridError /\ fallbackError

\* the fallback search, made after an error of the hybrid search; its error
\* ends the request
ChatFallback(r) ==
    /\ req[r].pc = "fallback"
    /\ \E error \in BOOLEAN :
         IF matchErr(TRUE, error)
         THEN req' = [req EXCEPT ![r] =
                        Ended([req[r] EXCEPT !.fallback = IF error THEN "error" ELSE "data"],
                              Append(req[r].calls, "fallback"),
                              ErrorResponse(500, "Failed to search documents"))]
         ELSE AfterRetrieval(r, Append(req[r].calls, "fallback"),
                             match_documents(req[r].searchQuery, MAX_CHUNKS_TO_LLM,
                                             OrNull(req[r].in.document_id), req[r].user))
    /\ UNCHANGED <<now, api_usage, documents, document_chunks, meter, usage0, served, ing, chunker, del, storage, hook, study_conversations>>

\* what a generation call can do: throw, or return with or without usage
GenerateOutcomes ==
    {[returned |-> FALSE, usage |-> NoUsage]} \cup {[returned |-> TRUE, usage |-> u] : u \in TokenUsages}

\* chatRes.usage?.prompt_tokens || 0, chatRes.usage?.completion_tokens || 0
TokensOf(usage) ==
    [prompt_tokens |-> IF Truthy(usage.prompt_tokens) THEN usage.prompt_tokens ELSE 0,
     completion_tokens |-> IF Truthy(usage.completion_tokens) THEN usage.completion_tokens ELSE 0]

\* the usage update also after a generation call that threw
AfterGenerateAlways(returned) == "usage_select"

\* what follows the generation call: the usage update when it returned, the
\* outer catch when it threw
AfterGenerate(returned) == IF returned THEN "usage_select" ELSE "catch"

\* the answer's generation call
ChatGenerate(r) ==
    /\ req[r].pc = "generate"
    /\ \E outcome \in GenerateOutcomes :
         LET calls == Append(req[r].calls, IF outcome.returned THEN "generate" ELSE "generate_threw")
         IN  IF AfterGenerate(outcome.returned) = "catch"
             THEN Finish(r, calls, ErrorResponse(500, "Internal server error"))
             ELSE req' = [req EXCEPT ![r].calls = calls,
                                     ![r].tokens = TokensOf(outcome.usage),
                                     ![r].pc = "usage_select"]
    /\ UNCHANGED <<now, api_usage, documents, document_chunks, meter, usage0, served, ing, chunker, del, storage, hook, study_conversations>>

\* updateUsage, first await: read today's row of the user
UsageSelect(r) ==
    /\ req[r].pc = "usage_select"
    /\ req' = [req EXCEPT ![r].today = UtcDate(now),
                          ![r].existing = api_usage[req[r].user][UtcDate(now)],
                          ![r].calls = Append(req[r].calls, "usage_select"),
                          ![r].pc = "usage_write"]
    /\ UNCHANGED <<now, api_usage, documents, document_chunks, meter, usage0, served, ing, chunker, del, storage, hook, study_conversations>>

\* the row of (user, date) after updateUsage's write: an update of the row read
\* (by its id) or, when none was read, an insert, which UNIQUE (user_id,
\* window_date) refuses when a row is there by now; the refusal is returned
\* as an error value that updateUsage does not look at
UsageWritten(current, existing, tokens) ==
    IF existing # NoRow
    THEN <<UpdatedRow(existing[1], tokens.prompt_tokens, tokens.completion_tokens)>>
    ELSE IF current = NoRow
    THEN <<InsertedRow(tokens.prompt_tokens, tokens.completion_tokens)>>
    ELSE current

\* updateUsage, second await: write the row
UsageWrite(r) ==
    /\ req[r].pc = "usage_write"
    /\ LET u == req[r].user
           d == req[r].today
           t == req[r].tokens
       IN  /\ api_usage' = [api_usage EXCEPT ![u][d] = UsageWritten(api_usage[u][d], req[r].existing, t)]
           /\ meter' = [meter EXCEPT ![u][d] =
                            [calls |-> @.calls + 1,
                             tokens |-> @.tokens + t.prompt_tokens + t.completion_tokens]]
    /\ req' = [req EXCEPT ![r].calls = Append(req[r].calls, "usage_write"), ![r].pc = "respond"]
    /\ UNCHANGED <<now, documents, document_chunks, usage0, served, ing, chunker, del, storage, hook, study_conversations>>

\* step 9: the second rate limit read and the response
ChatRespond(r) ==
    /\ req[r].pc = "respond"
    /\ Finish(r, Append(req[r].calls, "rate_limit"),
              Response(200, NULL, FALSE, "answer", Sources(req[r].qualityMatches), checkRateLimit(req[r].user)))
    /\ UNCHANGED <<now, api_usage, documents, document_chunks, meter, usage0, served, ing, chunker, del, storage, hook, study_conversations>>

\* time passes
Tick ==
    /\ \E t \in ClockTimes : t > now /\ now' = t
    /\ UNCHANGED <<api_usage, documents, document_chunks, req, meter, usage0, served, ing, chunker, del, storage, hook, study_conversations>>

\* ------------------------------------------------------------------------
\* POST /api/study/ingest

ALLOWED_MIME_TYPES == {"application/pdf", "text/plain", "text/markdown"}

\* objects of bucket lecture-materials, as paths split at "/"
StoredObjects == { <<"A", "notes.txt">>, <<"A", "slides.pdf">>, <<"B", "bio.pdf">> }

\* body and credential of a POST /ingest.  storage_path is the path split at
\* "/" (<<>>: missing); filename says whether the field is there; detected is
\* the type the magic bytes of the object give (NULL: none, as for text);
\* mime_type is the type the caller declares; trimLen is text.trim().length of
\* the extracted text and chunks the number of passages splitIntoChunks
\* returns for it.
IngestInput(u, sp, fn, det, mt, tx, n) ==
    [user |-> u, storage_path |-> sp, filename |-> fn, detected |-> det,
     mime_type |-> mt, trimLen |-> tx.trimLen, nonWs |-> tx.nonWs, chunks |-> n]

\* values of storage_path: objects of the bucket, a missing field, a path of
\* no object, a path that climbs out of the user's folder, an absolute path
IngestPaths ==
    StoredObjects \cup {<<>>, <<"A", "gone.txt">>, <<"A", "..", "B", "bio.pdf">>,
                        <<"", "A", "notes.txt">>}

\* extracted texts, by text.trim().length and by the number of characters
\* that are not whitespace: without inner whitespace, and with
TextShapes ==
    { [trimLen |-> 49, nonWs |-> 49], [trimLen |-> 50, nonWs |-> 50],
      [trimLen |-> 50, nonWs |-> 26], [trimLen |-> 97, nonWs |-> 49] }

IngestInputs ==
    { IngestInput(u, sp, fn, det, mt, tx, n) :
        u \in {"A", NULL},
        sp \in IngestPaths,
        fn \in BOOLEAN,
        det \in {NULL, "application/pdf", "image/png"},
        mt \in {NULL, "text/plain", "application/pdf"},
        tx \in TextShapes,
        n \in {0, 1, BATCH_SIZE + 1} }

IdleIngest ==
    [pc |-> "idle", in |-> NULL, user |-> NULL, doc |-> NULL, i |-> 0,
     rows |-> 0, failed |-> FALSE, status |-> 0, error |-> NULL, sent |-> NULL]

\* id of the documents row the ingest creates
NewDocumentId == "n1"

\* storage_path.startsWith(`${user.id}/`)
PathBelongsTo(storage_path, userId) ==
    Len(storage_path) >= 2 /\ storage_path[1] = userId

\* the handler answers with an error before a documents row exists
IngestReject(status) ==
    ing' = [ing EXCEPT !.pc = "done", !.status = status]

\* text.trim().length < 50
TooLittleText(trimLen) == trimLen < 50

\* the answer to a text with too little in it
IngestRejectText ==
    ing' = [ing EXCEPT !.pc = "done", !.status = 400,
                       !.error = "Document contains too little text to process."]

\* authentication, required fields and the ownership check of the path
IngestReceive(in) ==
    /\ ing.pc = "idle"
    /\ IF in.user = NULL
       THEN ing' = [IdleIngest EXCEPT !.pc = "done", !.in = in, !.status = 401]
       ELSE IF in.storage_path = <<>> \/ ~in.filename
       THEN ing' = [IdleIngest EXCEPT !.pc = "done", !.in = in, !.user = in.user, !.status = 400]
       ELSE IF ~PathBelongsTo(in.storage_path, in.user)
       THEN ing' = [IdleIngest EXCEPT !.pc = "done", !.in = in, !.user = in.user, !.status = 403]
       ELSE ing' = [IdleIngest EXCEPT !.pc = "download", !.in = in, !.user = in.user]
    /\ UNCHANGED <<now, api_usage, documents, document_chunks, req, meter, usage0, served, chunker, del, storage, hook, study_conversations>>

\* p.includes(".."), for a path split at "/"
HasTraversal(path) == \E i \in DOMAIN path : path[i] = ".."

\* p.startsWith("/")
IsAbsolute(path) == Len(path) >= 1 /\ path[1] = ""

\* The objects a download can find: those stored and, the storage service not
\* being part of the repository, whatever it makes of a path with "..".
CanResolve(path) == path \in StoredObjects \/ HasTraversal(path)

\* 1. download from storage
IngestDownload ==
    /\ ing.pc = "download"
    /\ \E downloadErr \in BOOLEAN :
         IF downloadErr \/ ~CanResolve(ing.in.storage_path)
         THEN IngestReject(400)
         ELSE ing' = [ing EXCEPT !.pc = "detect"]
    /\ UNCHANGED <<now, api_usage, documents, document_chunks, req, meter, usage0, served, chunker, del, storage, hook, study_conversations>>

\* mimeType = detectedType?.mime || mime_type || "application/octet-stream"
MimeType(in) ==
    IF in.detected # NULL THEN in.detected
    ELSE IF in.mime_type # NULL THEN in.mime_type
    ELSE "application/octet-stream"

\* the two type checks of the handler
UnsupportedType(in) ==
    \/ in.detected # NULL /\ in.detected \notin ALLOWED_MIME_TYPES
    \/ in.detected = NULL /\ in.mime_type \notin {"text/plain", "text/markdown"}

\* type detection by magic bytes; text that is not a PDF is decoded at once
IngestDetect ==
    /\ ing.pc = "detect"
    /\ IF UnsupportedType(ing.in)
       THEN IngestReject(400)
       ELSE IF MimeType(ing.in) = "application/pdf"
       THEN ing' = [ing EXCEPT !.pc = "parse"]
       ELSE IF TooLittleText(ing.in.trimLen)
       THEN IngestRejectText
       ELSE ing' = [ing EXCEPT !.pc = "insert_doc"]
    /\ UNCHANGED <<now, api_usage, documents, document_chunks, req, meter, usage0, served, chunker, del, storage, hook, study_conversations>>

\* 2. parse the PDF; a throw reaches the outer catch before the response
IngestParse ==
    /\ ing.pc = "parse"
    /\ \E parsed \in BOOLEAN :
         IF ~parsed
         THEN IngestReject(500)
         ELSE IF TooLittleText(ing.in.trimLen)
         THEN IngestRejectText
         ELSE ing' = [ing EXCEPT !.pc = "insert_doc"]
    /\ UNCHANGED <<now, api_usage, documents, document_chunks, req, meter, usage0, served, chunker, del, storage, hook, study_conversations>>

\* a documents row inserted as ready
NewDocumentReady(in) ==
    [id |-> NewDocumentId, uploaded_by |-> in.user, module_name |-> "General",
     filename |-> "upload", status |-> "ready", chunk_count |-> 0]

\* the documents row the handler inserts, which insert(...).select().single()
\* returns as doc
NewDocument(in) ==
    [id |-> NewDocumentId, uploaded_by |-> in.user, module_name |-> "General",
     filename |-> "upload", status |-> "processing", chunk_count |-> 0]

\* 3. create the documents row, answer, 4. split the text
IngestInsertDoc ==
    /\ ing.pc = "insert_doc"
    /\ \E docErr \in BOOLEAN :
         IF docErr
         THEN /\ IngestReject(500)
              /\ UNCHANGED documents
         ELSE /\ documents' = documents \cup {NewDocument(ing.in)}
              /\ ing' = [ing EXCEPT !.doc = NewDocumentId,
                                    !.status = 200,
                                    !.sent = NewDocument(ing.in).status,
                                    !.pc = IF ing.in.chunks > 0 THEN "embed" ELSE "insert_chunks"]
    /\ UNCHANGED <<now, api_usage, document_chunks, req, meter, usage0, served, chunker, del, storage, hook, study_conversations>>

\* 5. one batch of the embedding loop; a throw reaches the inner catch
IngestEmbed ==
    /\ ing.pc = "embed"
    /\ \E threw \in BOOLEAN :
         IF threw
         THEN ing' = [ing EXCEPT !.failed = TRUE, !.pc = "mark_error"]
         ELSE ing' = [ing EXCEPT !.rows = @ + Min(BATCH_SIZE, ing.in.chunks - ing.i),
                                 !.i = @ + BATCH_SIZE,
                                 !.pc = IF ing.i + BATCH_SIZE < ing.in.chunks THEN "embed" ELSE "insert_chunks"]
    /\ UNCHANGED <<now, api_usage, documents, document_chunks, req, meter, usage0, served, chunker, del, storage, hook, study_conversations>>

\* the rows of allChunkRows
NewChunks(doc, n) ==
    { ChunkRow(100 + k, doc, k, "General", "upload", 5000, 0) : k \in 0..(n - 1) }

\* document_id uuid REFERENCES documents(id): a chunk row can be inserted only
\* while the documents row it names exists
ForeignKeyHolds(document_id) == \E d \in documents : d.id = document_id

\* 6. insert the chunk rows; the store refuses them when the insert fails or
\* when the documents row is gone
IngestInsertChunks ==
    /\ ing.pc = "insert_chunks"
    /\ \E chunkErr \in BOOLEAN :
         IF chunkErr \/ (ing.rows > 0 /\ ~ForeignKeyHolds(ing.doc))
         THEN /\ ing' = [ing EXCEPT !.failed = TRUE, !.pc = "mark_error"]
              /\ UNCHANGED document_chunks
         ELSE /\ document_chunks' = document_chunks \cup NewChunks(ing.doc, ing.rows)
              /\ ing' = [ing EXCEPT !.pc = "mark_ready"]
    /\ UNCHANGED <<now, api_usage, documents, req, meter, usage0, served, chunker, del, storage, hook, study_conversations>>

\* documents.update(fields).eq("id", id)
UpdateDocument(id, status, chunk_count) ==
    { IF d.id = id THEN [d EXCEPT !.status = status, !.chunk_count = chunk_count] ELSE d : d \in documents }

\* what a status update that the store refuses leaves behind: the handler does
\* not look at the result of the update
AfterRefusedUpdate == documents

\* 7. mark the document ready
IngestMarkReady ==
    /\ ing.pc = "mark_ready"
    /\ \E updated \in BOOLEAN :
         IF updated
         THEN /\ documents' = UpdateDocument(ing.doc, "ready", ing.rows)
              /\ ing' = [ing EXCEPT !.pc = "done"]
         ELSE /\ documents' = AfterRefusedUpdate
              /\ ing' = [ing EXCEPT !.failed = TRUE, !.pc = "done"]
    /\ UNCHANGED <<now, api_usage, document_chunks, req, meter, usage0, served, chunker, del, storage, hook, study_conversations>>

\* the status update of the chunk-insert error branch and of the inner catch
IngestMarkError ==
    /\ ing.pc = "mark_error"
    /\ \E updated \in BOOLEAN :
         IF updated
         THEN documents' = { IF d.id = ing.doc THEN [d EXCEPT !.status = "error"] ELSE d : d \in documents }
         ELSE documents' = AfterRefusedUpdate
    /\ ing' = [ing EXCEPT !.pc = "done"]
    /\ UNCHANGED <<now, api_usage, document_chunks, req, meter, usage0, served, chunker, del, storage, hook, study_conversations>>

\* ------------------------------------------------------------------------
\* splitIntoChunks

CHUNK_TARGET_WORDS == 400

CHUNK_MAX_WORDS == 600

CHUNK_OVERLAP_WORDS == 60

\* .filter((p) => p.length > 10)
MIN_PARAGRAPH_CHARS == 10

\* if (currentWords.length > 20)
MIN_REMAINDER_WORDS == 20

\* most paragraphs of a text
MaxParagraphs == 3

\* A text is the sequence of its paragraphs, the pieces between blank lines
\* or before headings, trimmed; a paragraph is given by its length in
\* characters and in words (pieces between runs of whitespace).
ParagraphShapes ==
    { [chars |-> 10, words |-> 2], [chars |-> 11, words |-> 3],
      [chars |-> 100, words |-> 19], [chars |-> 110, words |-> 20],
      [chars |-> 115, words |-> 21], [chars |-> 1800, words |-> 340],
      [chars |-> 2200, words |-> 400], [chars |-> 3300, words |-> 598] }

Texts == UNION { [1..n -> ParagraphShapes] : n \in 0..MaxParagraphs }

\* para.split(/\s+/) of the paragraph at position p with n words: word k of
\* paragraph p is the number 1000 * p + k
ParaWords(p, n) == [k \in 1..n |-> 1000 * p + k]

\* p.length > 10
LongEnough(para) == para.chars > MIN_PARAGRAPH_CHARS

\* 1. the paragraphs kept, each with its words
Paragraphs(text) ==
    SelectSeq([p \in DOMAIN text |-> [chars |-> text[p].chars,
                                      paraWords |-> ParaWords(p, text[p].words)]],
              LongEnough)

\* an overlap of no words
NoOverlap(currentWords) == <<>>

\* currentWords.slice(-CHUNK_OVERLAP_WORDS)
Overlap(currentWords) ==
    IF Len(currentWords) <= CHUNK_OVERLAP_WORDS THEN currentWords
    ELSE SubSeq(currentWords, Len(currentWords) - CHUNK_OVERLAP_WORDS + 1, Len(currentWords))

\* the loop over the paragraphs: chunks and currentWords after it
RECURSIVE ChunkLoop(_, _, _)
ChunkLoop(paragraphs, chunks, currentWords) ==
    IF paragraphs = <<>> THEN [chunks |-> chunks, currentWords |-> currentWords]
    ELSE LET paraWords == Head(paragraphs).paraWords
             exceeds == /\ Len(currentWords) > 0
                        /\ Len(currentWords) + Len(paraWords) > CHUNK_MAX_WORDS
             flushed == IF exceeds THEN Append(chunks, currentWords) ELSE chunks
             pushed == (IF exceeds THEN Overlap(currentWords) ELSE currentWords) \o paraWords
         IN  IF Len(pushed) >= CHUNK_TARGET_WORDS
             THEN ChunkLoop(Tail(paragraphs), Append(flushed, pushed), Overlap(pushed))
             ELSE ChunkLoop(Tail(paragraphs), flushed, pushed)

\* the remainder test against the overlap size
KeepsRemainderOverOverlap(currentWords) == Len(currentWords) > CHUNK_OVERLAP_WORDS

\* currentWords.length > 20
KeepsRemainder(currentWords) == Len(currentWords) > MIN_REMAINDER_WORDS

\* chunks are kept as word sequences: join(" ") of words that hold no
\* whitespace loses nothing
splitIntoChunks(text) ==
    LET end == ChunkLoop(Paragraphs(text), <<>>, <<>>)
    IN  IF KeepsRemainder(end.currentWords)
        THEN Append(end.chunks, end.currentWords)
        ELSE end.chunks

\* no call yet
IdleChunker == [called |-> FALSE, text |-> <<>>, chunks |-> <<>>, remainder |-> <<>>]

\* one call of splitIntoChunks; remainder is history: currentWords when the
\* loop ended
SplitIntoChunks(text) ==
    /\ ~chunker.called
    /\ chunker' = [called |-> TRUE, text |-> text, chunks |-> splitIntoChunks(text),
                   remainder |-> ChunkLoop(Paragraphs(text), <<>>, <<>>).currentWords]
    /\ UNCHANGED <<now, api_usage, documents, document_chunks, req, meter, usage0, served, ing, del, storage, hook, study_conversations>>

\* ------------------------------------------------------------------------
\* POST /api/photos/sign

MAX_PATHS == 50

\* The validation of the body's paths, in order: 0 when every path passes and
\* the handler goes on to sign them, else the status of the rejection.
RECURSIVE ValidatePaths(_, _)
ValidatePaths(paths, userId) ==
    IF paths = <<>> THEN 0
    ELSE IF HasTraversal(Head(paths)) \/ IsAbsolute(Head(paths)) THEN 400
    ELSE IF ~PathBelongsTo(Head(paths), userId) THEN 403
    ELSE ValidatePaths(Tail(paths), userId)

\* the status the handler answers with before any storage access (0: none)
SignStatus(userId, paths) ==
    IF userId = NULL THEN 401
    ELSE IF Len(paths) = 0 \/ Len(paths) > MAX_PATHS THEN 400
    ELSE ValidatePaths(paths, userId)

\* ------------------------------------------------------------------------
\* DELETE /api/study/documents/:id

\* doc.file_path: the path the documents row was inserted with
\* (file_path: storage_path), as a path split at "/"
FilePath(id) ==
    CASE id = "d1" -> <<"A", "notes.txt">>
      [] id = "d2" -> <<"A", "slides.pdf">>
      [] id = "d3" -> <<"B", "bio.pdf">>
      [] OTHER -> ing.in.storage_path

\* credential and :id of a DELETE: a user or none, the id of a stored
\* document, of the document the ingest creates, or of no document
DeleteUsers == Users \cup {NULL}

DeleteIds == {"d1", "d3", NewDocumentId, "zz"}

\* during is history: where the ingest handler stood when the delete handler
\* selected the documents row
IdleDelete == [pc |-> "idle", user |-> NULL, id |-> NULL, status |-> 0, during |-> NULL]

\* authentication
DeleteReceive(u, id) ==
    /\ del.pc = "idle"
    /\ IF u = NULL
       THEN del' = [IdleDelete EXCEPT !.pc = "done", !.id = id, !.status = 401]
       ELSE del' = [IdleDelete EXCEPT !.pc = "select", !.user = u, !.id = id]
    /\ UNCHANGED <<now, api_usage, documents, document_chunks, req, meter, usage0, served, ing,
                   chunker, storage, hook, study_conversations>>

\* an ownership check that lets every user through
IsForeignNever(doc, userId) == FALSE

\* doc.uploaded_by !== user.id
IsForeign(doc, userId) == doc.uploaded_by # userId

\* select the documents row; 404 without one, 403 for a row of another user
DeleteSelect ==
    /\ del.pc = "select"
    /\ LET data == { d \in documents : d.id = del.id } IN
         IF data = {}
         THEN del' = [del EXCEPT !.pc = "done", !.status = 404]
         ELSE IF IsForeign(CHOOSE d \in data : TRUE, del.user)
         THEN del' = [del EXCEPT !.pc = "done", !.status = 403]
         ELSE del' = [del EXCEPT !.pc = "remove_object", !.during = ing.pc]
    /\ UNCHANGED <<now, api_usage, documents, document_chunks, req, meter, usage0, served, ing,
                   chunker, storage, hook, study_conversations>>

\* storage.from("lecture-materials").remove([doc.file_path])
DeleteRemoveObject ==
    /\ del.pc = "remove_object"
    /\ storage' = storage \ {FilePath(del.id)}
    /\ del' = [del EXCEPT !.pc = "delete_chunks"]
    /\ UNCHANGED <<now, api_usage, documents, document_chunks, req, meter, usage0, served, ing,
                   chunker, hook, study_conversations>>

\* document_chunks.delete().eq("document_id", docId)
DeleteChunks ==
    /\ del.pc = "delete_chunks"
    /\ document_chunks' = { c \in document_chunks : c.document_id # del.id }
    /\ del' = [del EXCEPT !.pc = "delete_document"]
    /\ UNCHANGED <<now, api_usage, documents, req, meter, usage0, served, ing,
                   chunker, storage, hook, study_conversations>>

\* a foreign key without ON DELETE CASCADE, which leaves the chunk rows
WithoutCascade(chunks, id) == chunks

\* document_id uuid REFERENCES documents(id) ON DELETE CASCADE: the chunk rows
\* left when the documents row id is deleted
OnDeleteCascade(chunks, id) == { c \in chunks : c.document_id # id }

\* documents.delete().eq("id", docId), and the answer
DeleteDocument ==
    /\ del.pc = "delete_document"
    /\ documents' = { d \in documents : d.id # del.id }
    /\ document_chunks' = OnDeleteCascade(document_chunks, del.id)
    /\ del' = [del EXCEPT !.pc = "done", !.status = 200]
    /\ UNCHANGED <<now, api_usage, req, meter, usage0, served, ing,
                   chunker, storage, hook, study_conversations>>

\* the steps of the delete handler
DeleteStep ==
    \/ \E u \in DeleteUsers : \E id \in DeleteIds : DeleteReceive(u, id)
    \/ DeleteSelect
    \/ DeleteRemoveObject
    \/ DeleteChunks
    \/ DeleteDocument

\* ------------------------------------------------------------------------
\* The client's chat hook (useChat)

\* values of the hook's moduleName
Modules == {"Bio", "Chem"}

\* calls of sendMessage and changes of moduleName in one run of the hook
MaxSends == 2

MaxSwitches == 2

\* ChatMessage values.  module is history, not part of the message: the
\* moduleName of the sendMessage call that wrote the message.
UserMsg(m) == [role |-> "user", content |-> "question", module |-> m]

AssistantMsg(m) == [role |-> "assistant", content |-> "answer", module |-> m]

\* content: `Error: ${err.message || "Something went wrong"}`
ErrorMsg(m) == [role |-> "assistant", content |-> "Error: ...", module |-> m]

\* s.slice(-n)
Last(s, n) == SubSeq(s, Len(s) - Min(n, Len(s)) + 1, Len(s))

\* the hook mounted for module Bio.  flights are the requests awaited;
\* saved is history: the arguments of the last call of saveConversation
\* that went on to send its request.
IdleHook ==
    [moduleName |-> "Bio", messages |-> <<>>, flights |-> {}, saved |-> NoRow,
     sends |-> 0, switches |-> 0]

\* table study_conversations: the user has a conversation in Chem
NoConversations ==
    [m \in Modules |-> IF m = "Chem" THEN <<UserMsg("Chem"), AssistantMsg("Chem")>> ELSE <<>>]

\* a request of the hook in flight: n numbers the requests, moduleName is the
\* moduleName of the callback that sent it, body the chat_history.length and
\* the cue of a chat request, first whether the thread was empty before it
Flight(n, kind, moduleName, first, histLen, cue) ==
    [n |-> n, kind |-> kind, moduleName |-> moduleName, first |-> first,
     body |-> [histLen |-> histLen, cue |-> cue]]

\* the moduleName prop changes and the effect calls loadConversation:
\* setMessages([]) and the GET of the conversation
SwitchModule(m) ==
    /\ m # hook.moduleName
    /\ hook.switches < MaxSwitches
    /\ hook' = [hook EXCEPT !.moduleName = m,
                            !.switches = @ + 1,
                            !.messages = <<>>,
                            !.flights = @ \cup {Flight(hook.sends + hook.switches, "load", m, FALSE, 0, FALSE)}]
    /\ UNCHANGED <<now, api_usage, documents, document_chunks, req, meter, usage0, served, ing,
                   chunker, del, storage, study_conversations>>

\* GET /conversations answers a loadConversation: the row of the module asked
\* for, and setMessages(data.messages) when it has messages; nothing on a throw
LoadReturn(f) ==
    /\ f \in hook.flights /\ f.kind = "load"
    /\ \E threw \in BOOLEAN :
         LET data == study_conversations[f.moduleName] IN
         hook' = [hook EXCEPT !.flights = @ \ {f},
                              !.messages = IF ~threw /\ Len(data) > 0 THEN data ELSE @]
    /\ UNCHANGED <<now, api_usage, documents, document_chunks, req, meter, usage0, served, ing,
                   chunker, del, storage, study_conversations>>

\* recentHistory = updatedMessages.slice(-CHAT_HISTORY_TURNS * 2), where
\* updatedMessages is [...prev, userMsg] when React has run the updater of
\* setMessages at once (eager) and still [] when it has queued it
RecentHistory(prev, userMsg, eager) ==
    Last(IF eager THEN Append(prev, userMsg) ELSE <<>>, CHAT_HISTORY_TURNS * 2)

\* sendMessage up to its await: the user message joins the thread and the
\* chat request leaves with module_name and chat_history
SendMessage(cue, eager) ==
    /\ hook.sends < MaxSends
    /\ LET userMsg == UserMsg(hook.moduleName)
           recentHistory == RecentHistory(hook.messages, userMsg, eager)
       IN  hook' = [hook EXCEPT !.sends = @ + 1,
                                !.messages = Append(@, userMsg),
                                !.flights = @ \cup {Flight(hook.sends + hook.switches, "send", hook.moduleName,
                                                           hook.messages = <<>>, Len(recentHistory), cue)}]
    /\ UNCHANGED <<now, api_usage, documents, document_chunks, req, meter, usage0, served, ing,
                   chunker, del, storage, study_conversations>>

\* PUT /conversations: the row of (user, module_name) after the upsert
\* of messages.slice(-100)
PutConversation(module_name, messages) ==
    [study_conversations EXCEPT ![module_name] = Last(messages, 100)]

\* sendMessage after its await.  An answer joins the thread as it is by now
\* and saveConversation, the one of the callback that sent the request,
\* puts the thread under its moduleName; a failure joins the thread as an
\* error message and nothing is saved.
SendReturn(f) ==
    /\ f \in hook.flights /\ f.kind = "send"
    /\ \E ok \in BOOLEAN, put \in BOOLEAN :
         IF ok
         THEN LET updated == Append(hook.messages, AssistantMsg(f.moduleName)) IN
              /\ hook' = [hook EXCEPT !.flights = @ \ {f},
                                      !.messages = updated,
                                      !.saved = IF f.moduleName = NULL \/ Len(updated) = 0
                                                THEN @
                                                ELSE <<[module_name |-> f.moduleName, messages |-> updated]>>]
              /\ study_conversations' =
                     IF f.moduleName = NULL \/ Len(updated) = 0 \/ ~put
                     THEN study_conversations
                     ELSE PutConversation(f.moduleName, updated)
         ELSE /\ hook' = [hook EXCEPT !.flights = @ \ {f},
                                      !.messages = Append(@, ErrorMsg(f.moduleName))]
              /\ UNCHANGED study_conversations
    /\ UNCHANGED <<now, api_usage, documents, document_chunks, req, meter, usage0, served, ing,
                   chunker, del, storage>>

\* the steps of the hook
NextHook ==
    \/ \E m \in Modules : SwitchModule(m)
    \/ \E f \in hook.flights : LoadReturn(f)
    \/ \E cue \in BOOLEAN, eager \in BOOLEAN : SendMessage(cue, eager)
    \/ \E f \in hook.flights : SendReturn(f)

\* ------------------------------------------------------------------------
\* Initial state and specifications

\* the api_usage row left by k earlier requests served one after the other,
\* each billed 1203 + 300 tokens (no row before the first: it is made lazily)
RowAfter(k) ==
    IF k = 0 THEN NoRow
    ELSE <<[query_count |-> k,
            tokens_used |-> k * (1203 + 300),
            cost_usd |-> k * Numeric6(Cost(1203, 300))]>>

\* the server starts with every user at query count k for the current date
InitWith(counts) ==
    /\ now = FirstInstant
    /\ \E k \in counts :
         /\ api_usage = [u \in Users |-> [d \in Dates |->
                            IF d = UtcDate(FirstInstant) THEN RowAfter(k) ELSE NoRow]]
         /\ meter = [u \in Users |-> [d \in Dates |->
                            IF d = UtcDate(FirstInstant)
                            THEN [calls |-> k, tokens |-> k * (1203 + 300)]
                            ELSE [calls |-> 0, tokens |-> 0]]]
    /\ usage0 = api_usage
    /\ documents = InitialDocuments
    /\ document_chunks = InitialChunks
    /\ req = [r \in Requests |-> IdleRequest]
    /\ served = 0
    /\ ing = IdleIngest
    /\ chunker = IdleChunker
    /\ del = IdleDelete
    /\ storage = StoredObjects
    /\ hook = IdleHook
    /\ study_conversations = NoConversations

\* no usage yet, or MaxChats - 1 requests short of the daily limit
Init == InitWith({0, DAILY_QUERY_LIMIT - (MaxChats - 1)})

\* the steps of the chat handler serving request r
ChatStep(r) ==
    \/ ChatRateLimit(r)
    \/ ChatRewrite(r)
    \/ ChatEmbed(r)
    \/ ChatHybrid(r)
    \/ ChatFallback(r)
    \/ ChatGenerate(r)
    \/ UsageSelect(r)
    \/ UsageWrite(r)
    \/ ChatRespond(r)

\* concurrent chat requests of one user
Next ==
    \/ \E r \in Requests : \E in \in ConcurrentChatInputs : ChatReceive(r, in)
    \/ \E r \in Requests : ChatStep(r)
    \/ Tick

Spec == Init /\ [][Next]_vars

\* no usage yet, one request short of the daily limit, or at the limit
InitChat == InitWith({0, DAILY_QUERY_LIMIT - 1, DAILY_QUERY_LIMIT})

\* one chat request of any shape
NextChat ==
    \/ \E in \in AllChatInputs : served = 0 /\ ChatReceive(1, in)
    \/ ChatStep(1)
    \/ Tick

SpecChat == InitChat /\ [][NextChat]_vars

\* one call of splitIntoChunks on any text
NextChunk == \E text \in Texts : SplitIntoChunks(text)

SpecChunk == InitWith({0}) /\ [][NextChunk]_vars

\* ------------------------------------------------------------------------
\* Claims about the usage meter under concurrent requests (Spec)

\* no updateUsage call is between its read and its write
NoUsageUpdateInProgress == \A r \in Requests : req[r].pc # "usage_write"

\* the row of (u, d) holds every completed updateUsage call of u on date d
RecordHoldsAllCalls(u, d) ==
    IF meter[u][d].calls = 0
    THEN api_usage[u][d] = NoRow
    ELSE /\ api_usage[u][d] # NoRow
         /\ api_usage[u][d][1].query_count = meter[u][d].calls
         /\ api_usage[u][d][1].tokens_used = meter[u][d].tokens

\* C1: under any interleaving of updateUsage calls of one user on one day no
\* increment is lost: once the N calls made so far have all completed, the
\* user's row of the day has query_count = N and tokens_used = the sum of the
\* tokens recorded, also when two calls both found no row.
C1_NoIncrementLost ==
    NoUsageUpdateInProgress => \A u \in Users, d \in Dates : RecordHoldsAllCalls(u, d)

\* row b is row a or a later, larger one
NotDecreased(a, b) ==
    \/ a = NoRow
    \/ /\ b # NoRow
       /\ b[1].query_count >= a[1].query_count
       /\ b[1].tokens_used >= a[1].tokens_used
       /\ b[1].cost_usd >= a[1].cost_usd

\* C2: a usage record is never decremented: in every step query_count,
\* tokens_used and cost_usd of every (user, day) stay or grow.
C2_NeverDecremented ==
    [][\A u \in Users, d \in Dates : NotDecreased(api_usage[u][d], api_usage'[u][d])]_vars

\* C3: a chat request that makes its rate limit check when exactly
\* DAILY_QUERY_LIMIT generation calls of its user have succeeded and been
\* recorded that day is rejected with the rate limit result, which carries the
\* count and the reset time, and makes no further call.
C3_RejectedAfterLimit ==
    \A r \in Requests :
        req[r].seen = DAILY_QUERY_LIMIT =>
            /\ req[r].pc = "done"
            /\ req[r].res.status = 429
            /\ req[r].res.usage.queryCount >= DAILY_QUERY_LIMIT
            /\ req[r].res.usage.resetTime \in {ResetTime(t) : t \in ClockTimes}
            /\ req[r].calls = <<"rate_limit">>

\* ------------------------------------------------------------------------
\* The daily limit under concurrent requests (SpecSoft)

\* requests sent in SpecSoft, at most MaxRequests of them at a time
MaxSoftChats == 5

\* the user is two requests short of the daily limit
InitSoft == InitWith({DAILY_QUERY_LIMIT - 2})

\* concurrent chat requests of one user within one day
NextSoft ==
    \/ \E r \in Requests : \E in \in ConcurrentChatInputs :
          served < MaxSoftChats /\ ChatAccept(r, in)
    \/ \E r \in Requests : ChatStep(r)

SpecSoft == InitSoft /\ [][NextSoft]_vars

\* C22: the daily limit is overrun only softly: the generation calls that
\* succeeded for a user in one day exceed DAILY_QUERY_LIMIT by at most the
\* number of requests of the user in flight at a time.
C22_SoftOverrun ==
    \A u \in Users, d \in Dates : meter[u][d].calls <= DAILY_QUERY_LIMIT + MaxRequests

\* ------------------------------------------------------------------------
\* The client's chat hook on its own (SpecHook)

SpecHook == InitWith({0}) /\ [][NextHook]_vars

\* C23: a rewrite call is made only with prior history and a cue word: the
\* chat request the hook sends for the first question of a thread makes the
\* server call no rewrite, also when the question has a cue word.
C23_NoRewriteForFirstQuestion ==
    \A f \in hook.flights : (f.kind = "send" /\ f.first) => ~NeedsRewrite(f.body)

\* C26: no conversation passed to saveConversation holds an assistant
\* message that reports a failed chat request ("Error: ...").
C26_ErrorNeverSaved ==
    hook.saved # NoRow =>
        \A i \in DOMAIN hook.saved[1].messages :
            hook.saved[1].messages[i].content # "Error: ..."

\* C30: conversations do not leak between modules: the messages saved under
\* a module and the messages shown for a module are messages of that module,
\* also when moduleName changes while a request is in flight.
C30_NoLeakBetweenModules ==
    /\ hook.saved # NoRow =>
           \A i \in DOMAIN hook.saved[1].messages :
               hook.saved[1].messages[i].module = hook.saved[1].module_name
    /\ \A m \in Modules : \A i \in DOMAIN study_conversations[m] :
           study_conversations[m][i].module = m
    /\ \A i \in DOMAIN hook.messages : hook.messages[i].module = hook.moduleName

\* ------------------------------------------------------------------------
\* The ingest handler on its own (SpecIngest)

NextIngest ==
    \/ \E in \in IngestInputs : IngestReceive(in)
    \/ IngestDownload
    \/ IngestDetect
    \/ IngestParse
    \/ IngestInsertDoc
    \/ IngestEmbed
    \/ IngestInsertChunks
    \/ IngestMarkReady
    \/ IngestMarkError

SpecIngest == InitWith({0}) /\ [][NextIngest]_vars

\* one delete request running beside the ingest handler (SpecDelete)
NextDelete ==
    \/ NextIngest
    \/ DeleteStep

SpecDelete == InitWith({0}) /\ [][NextDelete]_vars

\* the documents row the ingest created
IngestedDocument == CHOOSE d \in documents : d.id = ing.doc

\* C4: a document created by ingest leaves status processing: when the
\* detached phase has ended, the document is in status error if a step of the
\* phase failed (an embedding call, the chunk insert, a status update) and
\* in status ready otherwise.
C4_LeavesProcessing ==
    (ing.pc = "done" /\ ing.status = 200) =>
        IngestedDocument.status = (IF ing.failed THEN "error" ELSE "ready")

\* ------------------------------------------------------------------------
\* Properties of one chat request (SpecChat)

Answered(r) == req[r].pc = "done" /\ req[r].res.status = 200

\* the calls a request has made, by kind
AnswerCalls == {"generate", "generate_threw"}

UsageCalls == {"usage_select", "usage_write"}

Made(r, kinds) == \E i \in DOMAIN req[r].calls : req[r].calls[i] \in kinds

\* the user who uploaded the document of the chunk a row was made from
OwnerOf(row) == (CHOOSE d \in documents : d.id = row.document_id).uploaded_by

OwnerOfContent(content) == OwnerOf(CHOOSE c \in document_chunks : c.id = content)

\* C5: every chunk a chat request of a user puts in the context of the
\* generation call or returns as a source, after the hybrid search or after
\* the fallback search, is a chunk of a document that user uploaded, whatever
\* module name or document id the request carries.
C5_OnlyOwnChunks ==
    \A r \in Requests :
        /\ \A i \in DOMAIN req[r].qualityMatches : OwnerOf(req[r].qualityMatches[i]) = req[r].user
        /\ Answered(r) =>
               \A i \in DOMAIN req[r].res.sources :
                   OwnerOfContent(req[r].res.sources[i].content) = req[r].user

\* user A asks in module Bio, where user B has a document too, the hybrid
\* search fails and the fallback search answers with sources
C5_Witness ==
    \E r \in Requests :
        /\ Answered(r)
        /\ req[r].user = "A"
        /\ req[r].in.module_name = "Bio"
        /\ Made(r, {"fallback"})
        /\ Len(req[r].res.sources) > 0

\* C6 as stated: no source of a response has a similarity or a combined score
\* below SIMILARITY_THRESHOLD, and a response has at most MAX_CHUNKS_TO_LLM
\* sources.
C6_SimilarityAndCombinedScore ==
    \A r \in Requests :
        Answered(r) =>
            /\ Len(req[r].res.sources) <= MAX_CHUNKS_TO_LLM
            /\ \A i \in DOMAIN req[r].res.sources :
                   /\ req[r].res.sources[i].similarity >= SIMILARITY_THRESHOLD
                   /\ req[r].res.sources[i].combinedScore >= SIMILARITY_THRESHOLD

\* C6: no source of a response has a similarity below SIMILARITY_THRESHOLD
\* or a combined score below 0.7 of SIMILARITY_THRESHOLD, and a response has
\* at most MAX_CHUNKS_TO_LLM sources.
C6_SimilarityThreshold ==
    \A r \in Requests :
        Answered(r) =>
            /\ Len(req[r].res.sources) <= MAX_CHUNKS_TO_LLM
            /\ \A i \in DOMAIN req[r].res.sources :
                   /\ req[r].res.sources[i].similarity >= SIMILARITY_THRESHOLD
                   /\ 10 * req[r].res.sources[i].combinedScore >= 7 * SIMILARITY_THRESHOLD

\* a response with MAX_CHUNKS_TO_LLM sources, one of them with a combined
\* score below the threshold
C6_Witness ==
    \E r \in Requests :
        /\ Answered(r)
        /\ Len(req[r].res.sources) = MAX_CHUNKS_TO_LLM
        /\ \E i \in DOMAIN req[r].res.sources :
               req[r].res.sources[i].combinedScore < SIMILARITY_THRESHOLD

NoneQualifies(matches) ==
    \A i \in DOMAIN matches : matches[i].similarity < SIMILARITY_THRESHOLD

\* C7: a response to a request whose search returned no row, or only rows
\* below the threshold, has low_confidence = true and no sources, and a
\* response with low_confidence = false has at least one source.
C7_NoEmptySuccess ==
    \A r \in Requests :
        Answered(r) =>
            /\ NoneQualifies(req[r].matches) =>
                   req[r].res.low_confidence = TRUE /\ req[r].res.sources = <<>>
            /\ req[r].res.low_confidence = FALSE => Len(req[r].res.sources) >= 1

\* the search returned rows, all of them below the threshold
C7_Witness ==
    \E r \in Requests :
        /\ Answered(r)
        /\ Len(req[r].matches) > 0
        /\ NoneQualifies(req[r].matches)
        /\ req[r].res.low_confidence = TRUE

\* C8 as stated: a request whose search yields no qualifying chunk makes no
\* call to the generation model at any point, the rewrite of the question
\* included, and leaves the usage records unchanged.
C8_NoModelCallAtAll ==
    \A r \in Requests :
        (req[r].retrieved /\ NoneQualifies(req[r].matches)) =>
            /\ ~Made(r, AnswerCalls \cup {"rewrite"})
            /\ ~Made(r, UsageCalls)
            /\ api_usage = usage0

\* C8: a request whose search yields no qualifying chunk ends there: it makes
\* no answer-generation call and leaves the usage records unchanged; the one
\* call to the generation model it can have made is the rewrite of a follow-up
\* question, before the search.
C8_NoAnswerGeneration ==
    \A r \in Requests :
        (req[r].retrieved /\ NoneQualifies(req[r].matches)) =>
            /\ req[r].pc = "done"
            /\ ~Made(r, AnswerCalls)
            /\ ~Made(r, UsageCalls)
            /\ api_usage = usage0
            /\ Made(r, {"rewrite"}) => NeedsRewrite(req[r].in)

\* a follow-up question in a module with no documents: rewritten, then no match
C8_Witness ==
    \E r \in Requests :
        /\ Answered(r)
        /\ req[r].in.module_name = "Empty"
        /\ req[r].matches = <<>>
        /\ Made(r, {"rewrite"})
        /\ req[r].res.low_confidence = TRUE

\* C9: an authenticated request whose question is longer than
\* MAX_QUESTION_LENGTH is rejected with status 400 before the rate limit is
\* read, with no call made and no usage record changed; a question of exactly
\* MAX_QUESTION_LENGTH characters is not rejected for its length.
C9_QuestionLength ==
    \A r \in Requests :
        (req[r].pc # "idle" /\ req[r].user # NULL) =>
            /\ req[r].in.qlen > MAX_QUESTION_LENGTH =>
                   /\ req[r].pc = "done"
                   /\ req[r].res.status = 400
                   /\ req[r].calls = <<>>
                   /\ api_usage = usage0
            /\ req[r].in.qlen = MAX_QUESTION_LENGTH =>
                   ~(req[r].pc = "done" /\ req[r].res.error = "Question too long")

\* a question of MAX_QUESTION_LENGTH + 1 characters has been rejected
C9_Witness ==
    \E r \in Requests :
        /\ req[r].pc = "done"
        /\ req[r].user # NULL
        /\ req[r].in.qlen = MAX_QUESTION_LENGTH + 1
        /\ req[r].res.error = "Question too long"

\* a question of MAX_QUESTION_LENGTH characters has been answered
C9_WitnessAtLimit ==
    \E r \in Requests : Answered(r) /\ req[r].in.qlen = MAX_QUESTION_LENGTH

\* C10: a request whose generation call failed ends with status 500 without
\* reading or writing the usage records, which are what they were before the
\* request; the usage records differ from what they were only when a request's
\* generation call has returned.
C10_FailedGenerationNotCounted ==
    /\ \A r \in Requests :
           Made(r, {"generate_threw"}) =>
               /\ req[r].pc = "done"
               /\ req[r].res.status = 500
               /\ ~Made(r, UsageCalls)
               /\ api_usage = usage0
    /\ api_usage # usage0 => \E r \in Requests : Made(r, {"generate"})

\* a request has ended with the error of a failed generation call
C10_Witness ==
    \E r \in Requests :
        /\ req[r].pc = "done"
        /\ Made(r, {"generate_threw"})
        /\ req[r].res.status = 500

\* the rows the fallback search returns for the request's search query
FallbackMatches(r) ==
    match_documents(req[r].searchQuery, MAX_CHUNKS_TO_LLM,
                    OrNull(req[r].in.document_id), req[r].user)

RetrievalError(r) == req[r].pc = "done" /\ req[r].res.error = "Failed to search documents"

\* C11: a request whose hybrid search reported an error and whose fallback
\* search returned goes on with the rows of the fallback and answers without
\* an error from retrieval; the retrieval error is answered only when both
\* the hybrid and the fallback search reported an error.
C11_FallbackDegradesSilently ==
    \A r \in Requests :
        /\ (req[r].hybridResult = "error" /\ req[r].fallback = "data") =>
               /\ req[r].retrieved
               /\ ~RetrievalError(r)
               /\ req[r].pc = "generate" =>
                      req[r].qualityMatches = QualityMatches(FallbackMatches(r))
               /\ req[r].pc = "done" =>
                      req[r].res.status = 200 \/ Made(r, {"generate_threw"})
        /\ RetrievalError(r) =>
               req[r].hybridResult = "error" /\ req[r].fallback = "error"

\* the hybrid search failed and the request was answered with sources
C11_Witness ==
    \E r \in Requests :
        /\ Answered(r)
        /\ req[r].hybridResult = "error"
        /\ req[r].fallback = "data"
        /\ req[r].res.low_confidence = FALSE
        /\ Len(req[r].res.sources) > 0

\* both searches failed and the caller got the retrieval error
C11_WitnessBothFail ==
    \E r \in Requests : RetrievalError(r) /\ req[r].fallback = "error"

\* the module of the chunk a row or a source was made from
ModuleOfContent(content) == (CHOOSE c \in document_chunks : c.id = content).module_name

\* C12: a request scoped to a module whose rows come from the fallback search
\* gets only chunks of that module, in the rows the search returned and in
\* the sources of the response.
C12_FallbackKeepsModule ==
    \A r \in Requests :
        (req[r].fallback = "data" /\ req[r].in.module_name # NULL) =>
            /\ \A i \in DOMAIN req[r].matches :
                   ModuleOfContent(req[r].matches[i].content) = req[r].in.module_name
            /\ Answered(r) =>
                   \A i \in DOMAIN req[r].res.sources :
                       ModuleOfContent(req[r].res.sources[i].content) = req[r].in.module_name

\* the rows the search that answered request r returns for search query q
MatchesFor(r, q) ==
    IF req[r].hybridResult = "data"
    THEN match_documents_hybrid(q, q, MAX_CHUNKS_TO_LLM + HYBRID_OVERFETCH, SIMILARITY_THRESHOLD,
                                OrNull(req[r].in.document_id), req[r].user,
                                OrNull(req[r].in.module_name))
    ELSE match_documents(q, MAX_CHUNKS_TO_LLM, OrNull(req[r].in.document_id), req[r].user)

\* C13: when the rewrite call of a request throws, the search query is the
\* original question, the rows of the search are those the question gives,
\* and the request goes on to the embedding call: it does not end at the
\* rewrite.
C13_RewriteThrowKeepsQuestion ==
    \A r \in Requests :
        req[r].rewriteRes = "throw" =>
            /\ req[r].pc # "done" => req[r].searchQuery = req[r].in.question
            /\ req[r].retrieved => req[r].matches = MatchesFor(r, req[r].in.question)
            /\ req[r].pc = "done" => Made(r, {"embed"})

\* the rewrite threw and the request was answered from the user's documents
C13_Witness ==
    \E r \in Requests :
        /\ Answered(r)
        /\ req[r].rewriteRes = "throw"
        /\ req[r].res.low_confidence = FALSE

\* a path the claim wants rejected for user userId
BadPath(path, userId) == ~PathBelongsTo(path, userId) \/ HasTraversal(path) \/ IsAbsolute(path)

\* bodies of POST /sign
SignInputs ==
    { <<p>> : p \in IngestPaths } \cup { <<<<"A", "p1.jpg">>, p>> : p \in IngestPaths }
    \cup { [i \in 1..(MAX_PATHS + 1) |-> <<"A", "p1.jpg">>] }

\* C14: an ingest request whose storage_path does not begin with the user's
\* id, contains ".." or starts with "/" is rejected (400 or 403) before the
\* download from storage and before a documents row exists, and a sign
\* request with such a path among its paths is rejected likewise.
C14_PathsRejected ==
    /\ (ing.pc # "idle" /\ ing.user # NULL /\ ing.in.filename /\ ing.in.storage_path # <<>>
            /\ BadPath(ing.in.storage_path, ing.user)) =>
           /\ ing.pc = "done"
           /\ ing.status \in {400, 403}
           /\ ing.doc = NULL
    /\ \A paths \in SignInputs :
           (\E i \in DOMAIN paths : BadPath(paths[i], "A")) => SignStatus("A", paths) \in {400, 403}

\* C15: the step of ingest that answers the caller is the one that creates
\* the documents row; the document it sends and the row are in status
\* processing, no embedding batch has been requested by then, and every
\* embedding batch is requested after the answer.
C15_AnsweredBeforeEmbedding ==
    [][/\ (ing.sent = NULL /\ ing'.sent # NULL) =>
              /\ ing'.sent = "processing"
              /\ ing'.status = 200
              /\ ing'.i = 0 /\ ing'.rows = 0
              /\ \E d \in documents' \ documents : d.id = ing'.doc /\ d.status = "processing"
       /\ (ing'.i > ing.i \/ ing'.rows > ing.rows) =>
              ing.sent = "processing" /\ ing.status = 200]_vars

\* the caller has the document and the first embedding batch is still to come
C15_Witness == ing.sent = "processing" /\ ing.pc = "embed" /\ ing.i = 0 /\ ing.in.chunks > BATCH_SIZE

\* the calendar date of instant t in the reference timezone, UTC+8
Utc8Date(t) == (t + 8) \div 24

\* query_count of the record of user u and date d, 0 when there is none
RecordCount(u, d) ==
    IF d \in Dates /\ api_usage[u][d] # NoRow THEN api_usage[u][d][1].query_count ELSE 0

\* C16: the usage record a request reads at instant t, for its rate limit
\* check and for its update, is the record keyed by the UTC+8 calendar date
\* of t.
C16_KeyedByUtc8Date ==
    [][\A r \in Requests :
          /\ (req[r].pc = "rate" /\ req'[r].pc # "rate") =>
                 (IF req'[r].pc = "done" THEN req'[r].res.usage.queryCount
                                         ELSE req'[r].rateLimit.queryCount)
                     = RecordCount(req[r].user, Utc8Date(now))
          /\ (req[r].pc = "usage_select" /\ req'[r].pc = "usage_write") =>
                 req'[r].today = Utc8Date(now)]_vars

\* the remainder was pushed as the last chunk
RemainderKept ==
    /\ chunker.chunks # <<>>
    /\ chunker.chunks[Len(chunker.chunks)] = chunker.remainder
    /\ chunker.chunks # ChunkLoop(Paragraphs(chunker.text), <<>>, <<>>).chunks

\* C17: splitIntoChunks returns no chunk of fewer than 20 words, and the
\* final remainder is discarded only when it has fewer than 20 words.
C17_NoSmallChunk ==
    chunker.called =>
        /\ \A i \in DOMAIN chunker.chunks : Len(chunker.chunks[i]) >= 20
        /\ ~RemainderKept => Len(chunker.remainder) < 20

RECURSIVE Concat(_)
Concat(seqs) == IF seqs = <<>> THEN <<>> ELSE Head(seqs) \o Concat(Tail(seqs))

\* the words of the paragraphs of the text, in order
AllWords(text) == Concat([p \in DOMAIN text |-> ParaWords(p, text[p].words)])

\* the words of the paragraphs of more than MIN_PARAGRAPH_CHARS characters
KeptWords(text) ==
    Concat([p \in DOMAIN text |->
               IF text[p].chars > MIN_PARAGRAPH_CHARS THEN ParaWords(p, text[p].words) ELSE <<>>])

\* chunk i without its overlap seed, the trailing words of the chunk before
Unseeded(chunks, i) ==
    IF i = 1 THEN chunks[1]
    ELSE SubSeq(chunks[i], Min(CHUNK_OVERLAP_WORDS, Len(chunks[i - 1])) + 1, Len(chunks[i]))

\* the chunks without their overlap seeds, concatenated
Reconstructed(chunks) == Concat([i \in DOMAIN chunks |-> Unseeded(chunks, i)])

IsPrefix(s, t) == Len(s) <= Len(t) /\ SubSeq(t, 1, Len(s)) = s

\* C18 as stated: the chunks without their overlap seeds, concatenated, are
\* the words of all paragraphs of the text, in order.
C18_CoversEveryParagraph ==
    chunker.called => Reconstructed(chunker.chunks) = AllWords(chunker.text)

\* C18: the chunks without their overlap seeds, concatenated, are the words,
\* in order, of the paragraphs of more than 10 characters, up to a final
\* remainder that is discarded: at most MIN_REMAINDER_WORDS words are missing
\* at the end, and none anywhere else.
C18_CoversKeptParagraphs ==
    chunker.called =>
        LET got == Reconstructed(chunker.chunks)
            all == KeptWords(chunker.text)
        IN  /\ IsPrefix(got, all)
            /\ Len(all) - Len(got) <= MIN_REMAINDER_WORDS
            /\ Len(got) < Len(all) => Len(chunker.remainder) <= MIN_REMAINDER_WORDS

\* several chunks that give back the text but for a short paragraph
C18_Witness ==
    /\ chunker.called
    /\ Len(chunker.chunks) >= 2
    /\ \E p \in DOMAIN chunker.text : chunker.text[p].chars <= MIN_PARAGRAPH_CHARS
    /\ Reconstructed(chunker.chunks) = KeptWords(chunker.text)
    /\ Reconstructed(chunker.chunks) # AllWords(chunker.text)

\* a text whose only words are a remainder that is discarded
C18_WitnessDiscarded ==
    /\ chunker.called
    /\ chunker.chunks = <<>>
    /\ Len(KeptWords(chunker.text)) = MIN_REMAINDER_WORDS

\* C19: when splitIntoChunks returns more than one chunk, each chunk after
\* the first begins with the trailing min(CHUNK_OVERLAP_WORDS, length) words
\* of the chunk before it, and that overlap is not empty.
C19_ConsecutiveChunksOverlap ==
    chunker.called =>
        \A i \in 2..Len(chunker.chunks) :
            LET before == chunker.chunks[i - 1]
                k == Min(CHUNK_OVERLAP_WORDS, Len(before))
            IN  /\ k > 0
                /\ Len(chunker.chunks[i]) >= k
                /\ SubSeq(chunker.chunks[i], 1, k) = SubSeq(before, Len(before) - k + 1, Len(before))

\* three chunks, the first shorter than the overlap
C19_Witness ==
    /\ chunker.called
    /\ Len(chunker.chunks) >= 3
    /\ Len(chunker.chunks[1]) < CHUNK_OVERLAP_WORDS

RejectedForContent == ing.error = "Document contains too little text to process."

\* C20: ingest rejects a document for insufficient content, with no documents
\* row created, exactly when its extracted text has fewer than 50 characters
\* that are not whitespace: a text with 50 or more is not rejected for this,
\* and a text with fewer does not get past the test.
C20_InsufficientContent ==
    /\ RejectedForContent => ing.in.nonWs < 50 /\ ing.doc = NULL
    /\ (ing.pc = "insert_doc" \/ ing.doc # NULL) => ing.in.nonWs >= 50

\* ------------------------------------------------------------------------
\* Claims about the delete handler (SpecDelete)

\* C21: a delete request for a document by a user who is not its uploader is
\* answered 403 and a request for an id of no document 404; the step that
\* answers so leaves table documents, table document_chunks and the bucket
\* as they are, and the handler has written nothing before it.
C21_RejectedDeleteChangesNothing ==
    [][/\ (del.pc = "idle" /\ del' # del) =>
              UNCHANGED <<documents, document_chunks, storage>>
       /\ (del.pc = "select" /\ del' # del) =>
              LET data == { d \in documents : d.id = del.id }
                  foreign == \E d \in data : d.uploaded_by # del.user
              IN  (data = {} \/ foreign) =>
                     /\ del'.pc = "done"
                     /\ del'.status = (IF data = {} THEN 404 ELSE 403)
                     /\ UNCHANGED <<documents, document_chunks, storage>>]_vars

\* user B was refused the delete of a document of user A, which is all there
C21_Witness ==
    /\ del.pc = "done" /\ del.status = 403 /\ del.user = "B" /\ del.id = "d1"
    /\ InitialDocuments \subseteq documents
    /\ InitialChunks \subseteq document_chunks
    /\ storage = StoredObjects

\* a delete of an id of no document was answered 404
C21_WitnessUnknown == del.pc = "done" /\ del.status = 404 /\ del.id = "zz"

\* C29: when the owner's delete of a document and the detached phase of the
\* ingest that created the document have both ended, in whatever order their
\* steps were taken, table documents has no row of that id and table
\* document_chunks no row of that document.
C29_DeleteOutlastsIngest ==
    (del.pc = "done" /\ del.status = 200 /\ del.id = ing.doc /\ ing.pc = "done") =>
        /\ \A d \in documents : d.id # del.id
        /\ \A c \in document_chunks : c.document_id # del.id

\* the delete found the document while its chunks were still being embedded
\* or inserted, and both handlers have ended
C29_Witness ==
    /\ del.pc = "done" /\ del.status = 200 /\ del.id = ing.doc /\ ing.pc = "done"
    /\ del.during \in {"embed", "insert_chunks"}
    /\ ing.rows > 0

\* ------------------------------------------------------------------------
\* Claims about the low-confidence answer and the reset time (SpecChat)

\* the search query request r searched with: its question, or what the
\* rewrite made of it
SearchQueryOf(r) ==
    IF req[r].rewriteRes = "none" THEN req[r].in.question
    ELSE Rewritten(req[r].in.question, req[r].rewriteRes)

\* the chunks of the scope request r asks for (its user's, of the document
\* and the module it names) that are at all similar to its search query
CandidatesInScope(r) ==
    { c \in document_chunks :
        /\ OwnerOf(c) = req[r].user
        /\ OrNull(req[r].in.document_id) \in {NULL, c.document_id}
        /\ OrNull(req[r].in.module_name) \in {NULL, c.module_name}
        /\ Cosine(c, SearchQueryOf(r)) > 0 }

\* C24: when no chunk clears the threshold, on the hybrid and on the fallback
\* path, the answer is the "loosely related" text whenever the scope asked
\* for holds candidate chunks, all of them below the threshold; the
\* "couldn't find" text is given only when nothing in scope matched at all.
C24_MessageTellsWeakFromNone ==
    \A r \in Requests :
        (Answered(r) /\ req[r].res.low_confidence = TRUE /\ CandidatesInScope(r) # {}) =>
            req[r].res.answer = "loosely_related"

\* the next midnight of UTC+8 after instant t
NextMidnightUtc8(t) == (Utc8Date(t) + 1) * 24 - 8

\* the instant the usage window in force at t ends: the first instant whose
\* record is another one than that of t
WindowEnd(t) == (UtcDate(t) + 1) * 24

\* C25: the resetTime checkRateLimit returns at instant t is the next
\* midnight of UTC+8 after t, is at most 24 hours after t, and is the
\* instant the usage window in force at t ends.
C25_ResetTimeIsNextMidnight ==
    [][\A r \in Requests :
          (req[r].pc = "rate" /\ req'[r].pc # "rate") =>
              LET resetTime == IF req'[r].pc = "done" THEN req'[r].res.usage.resetTime
                                                      ELSE req'[r].rateLimit.resetTime
              IN  /\ resetTime = NextMidnightUtc8(now)
                  /\ resetTime - now <= 24
                  /\ resetTime = WindowEnd(now)]_vars

\* ------------------------------------------------------------------------
\* Claims about the size and the content of chunks (SpecChunk)

\* C27: when no paragraph of the text has more than CHUNK_MAX_WORDS words, no
\* chunk splitIntoChunks returns has more than CHUNK_MAX_WORDS words.
C27_NoChunkOverMax ==
    (/\ chunker.called
     /\ \A p \in DOMAIN chunker.text : chunker.text[p].words <= CHUNK_MAX_WORDS) =>
        \A i \in DOMAIN chunker.chunks : Len(chunker.chunks[i]) <= CHUNK_MAX_WORDS

\* C28: every chunk splitIntoChunks returns, the final remainder included,
\* holds at least one word that is not of its overlap seed: no chunk is a
\* copy of the trailing words of the chunk before it.
C28_NoChunkOfSeedOnly ==
    chunker.called =>
        \A i \in DOMAIN chunker.chunks :
            /\ Unseeded(chunker.chunks, i) # <<>>
            /\ i > 1 => chunker.chunks[i] # Overlap(chunker.chunks[i - 1])

====
